---- MODULE Spec2Model ----
(***************************************************************************)
(* Model of src/src/components/OnboardingForm.tsx: the OnboardingForm      *)
(* component (formData, showPassword, isLoading), its phone formatter and  *)
(* its submit handler.                                                     *)
(*                                                                         *)
(* A JavaScript string is modelled as a sequence of one-character strings, *)
(* so that slicing, trimming and length are computed, not assumed.         *)
(***************************************************************************)
EXTENDS Integers, Sequences, FiniteSets, TLC

VARIABLES
    formData,      \* useState<FormData>: [fullName, phoneNumber, password]
    showPassword,  \* useState(false), line 21
    isLoading,     \* useState(false), line 22: the value last given to setIsLoading
    pc,            \* position of the run of handleSubmit
    timers,        \* setTimeout callbacks scheduled at line 91 and not yet fired
    toasts,        \* notifications the latest run of handleSubmit has emitted
    editsInFlight, \* history: the field edits made while the latest run was suspended
    fmtInput,      \* formatter harness: the raw string handed to formatPhoneNumber
    fmtOutput,     \* formatter harness: formatPhoneNumber(fmtInput), once applied
    fmtAgain       \* formatter harness: formatPhoneNumber(fmtOutput), once applied

vars == <<formData, showPassword, isLoading, pc, timers, toasts, editsInFlight,
          fmtInput, fmtOutput, fmtAgain>>

fmtVars == <<fmtInput, fmtOutput, fmtAgain>>

(***************************************************************************)
(* Bounds of the model.                                                    *)
(***************************************************************************)
MaxNameLen == 2

MaxPasswordLen == 7

MaxDigits == 16

(***************************************************************************)
(* Program constants.                                                      *)
(***************************************************************************)
PhoneMinLength == 19

PasswordMinLength == 6

PhoneMaxLength == 19

(***************************************************************************)
(* Strings.                                                                *)
(***************************************************************************)
EmptyString == << >>

DigitChar == <<"0", "1", "2", "3", "4", "5", "6", "7", "8", "9">>

Digits == {DigitChar[i] : i \in 1..10}

WhiteSpace == {" "}

Min(a, b) == IF a < b THEN a ELSE b

\* String.prototype.slice(begin, end) for 0 <= begin, 0 <= end: the characters
\* at 0-based positions begin .. end-1, the end clamped to the length.
slice(s, begin, end) == SubSeq(s, begin + 1, Min(end, Len(s)))

\* String.prototype.slice(begin): to the end of the string.
sliceFrom(s, begin) == SubSeq(s, begin + 1, Len(s))

\* value.replace(/\D/g, ''): every character that is not a digit removed.
removeNonDigits(value) == SelectSeq(value, LAMBDA c : c \in Digits)

RECURSIVE trimStart(_)
trimStart(s) ==
    IF s # EmptyString /\ Head(s) \in WhiteSpace THEN trimStart(Tail(s)) ELSE s

RECURSIVE trimEnd(_)
trimEnd(s) ==
    IF s # EmptyString /\ s[Len(s)] \in WhiteSpace
    THEN trimEnd(SubSeq(s, 1, Len(s) - 1))
    ELSE s

\* String.prototype.trim()
trim(s) == trimEnd(trimStart(s))

\* n copies of the character c
Rep(c, n) == [i \in 1..n |-> c]

\* every string over the alphabet of length at most n
StringsUpTo(alphabet, n) == UNION {[1..k -> alphabet] : k \in 0..n}

(***************************************************************************)
(* formatPhoneNumber, lines 32-46.                                         *)
(***************************************************************************)
Prefix55 == <<"+", "5", "5", " ">>

\* formatLong with the middle group one digit too wide: slice(4, 10)
formatLong_WideMiddle(numbers) ==
    Prefix55 \o <<"(">> \o slice(numbers, 2, 4) \o <<")", " ">>
        \o slice(numbers, 4, 10) \o <<"-">> \o slice(numbers, 9, 13)

\* formatLong with an open last group: slice(9) for slice(9, 13)
formatLong_OpenEnd(numbers) ==
    Prefix55 \o <<"(">> \o slice(numbers, 2, 4) \o <<")", " ">>
        \o slice(numbers, 4, 9) \o <<"-">> \o sliceFrom(numbers, 9)

\* the branch for more than 9 digits, lines 43-45
formatLong(numbers) ==
    Prefix55 \o <<"(">> \o slice(numbers, 2, 4) \o <<")", " ">>
        \o slice(numbers, 4, 9) \o <<"-">> \o slice(numbers, 9, 13)

\* the branch for at most 2 digits, lines 37-38
formatShort(numbers) == Prefix55 \o numbers

formatPhoneNumber(value) ==
    LET numbers == removeNonDigits(value)
    IN  IF Len(numbers) <= 2 THEN formatShort(numbers)
        ELSE IF Len(numbers) <= 4
             THEN Prefix55 \o <<"(">> \o sliceFrom(numbers, 2) \o <<")">>
        ELSE IF Len(numbers) <= 9
             THEN Prefix55 \o <<"(">> \o slice(numbers, 2, 4) \o <<")", " ">>
                      \o sliceFrom(numbers, 4)
        ELSE formatLong(numbers)

(***************************************************************************)
(* The notifications handleSubmit hands to toast() (accents dropped).      *)
(***************************************************************************)
ToastEmptyName ==
    [title |-> "Erro",
     description |-> "Por favor, preencha seu nome completo.",
     variant |-> "destructive"]

ToastInvalidPhone ==
    [title |-> "Erro",
     description |-> "Por favor, preencha um numero de telefone valido.",
     variant |-> "destructive"]

ToastWeakPassword ==
    [title |-> "Erro",
     description |-> "A senha deve ter pelo menos 6 caracteres.",
     variant |-> "destructive"]

ToastSuccess ==
    [title |-> "Sucesso!",
     description |-> "Cadastro realizado com sucesso. Voce recebera as instrucoes de acesso em breve.",
     variant |-> "default"]

ToastSubmissionFailure ==
    [title |-> "Erro",
     description |-> "Ocorreu um erro ao processar seu cadastro. Tente novamente.",
     variant |-> "destructive"]

(***************************************************************************)
(* The validation rules of handleSubmit, lines 58, 68 and 78.              *)
(***************************************************************************)
\* the name rule without trim(): !formData.fullName
nameRuleFails_NoTrim(fd) == fd.fullName = EmptyString

nameRuleFails(fd) == trim(fd.fullName) = EmptyString

\* the phone rule without its length test
phoneRuleFails_NoLength(fd) == trim(fd.phoneNumber) = EmptyString

\* the phone rule with <= for <
phoneRuleFails_OffByOne(fd) ==
    trim(fd.phoneNumber) = EmptyString \/ Len(fd.phoneNumber) <= PhoneMinLength

phoneRuleFails(fd) ==
    trim(fd.phoneNumber) = EmptyString \/ Len(fd.phoneNumber) < PhoneMinLength

\* the password rule without its length test
passwordRuleFails_NoLength(fd) == trim(fd.password) = EmptyString

passwordRuleFails(fd) ==
    trim(fd.password) = EmptyString \/ Len(fd.password) < PasswordMinLength

EmptyForm == [fullName |-> EmptyString, phoneNumber |-> EmptyString,
              password |-> EmptyString]

(***************************************************************************)
(* The inputs the model draws.                                             *)
(***************************************************************************)
NameChars == {" ", "M"}

PasswordChars == {" ", "a"}

PhoneKeys == {"9", "x"}

\* a valid name and a valid password: "Maria Silva", "abcdef"
NameSample == <<"M", "a", "r", "i", "a", " ", "S", "i", "l", "v", "a">>

PasswordSample == <<"a", "b", "c", "d", "e", "f">>

NameInputs == StringsUpTo(NameChars, MaxNameLen) \cup {NameSample}

\* the password lengths drawn: the short ones and those around minLength
PasswordLens == {0, 1} \cup ((PasswordMinLength - 1)..MaxPasswordLen)

\* runs of one character, runs of letters after a leading blank, the sample
PasswordInputs ==
    {Rep(c, n) : c \in PasswordChars, n \in PasswordLens}
        \cup {<<" ">> \o Rep("a", n) : n \in PasswordLens}
        \cup {PasswordSample}

\* whole values set at once (a paste, an autofill), none longer than maxLength:
\* "5511999999999" and "+55 (11) 99999-9999"
PhonePastes ==
    { <<"5", "5", "1", "1", "9", "9", "9", "9", "9", "9", "9", "9", "9">>,
      <<"+", "5", "5", " ", "(", "1", "1", ")", " ",
        "9", "9", "9", "9", "9", "-", "9", "9", "9", "9">> }

\* The values the phone <Input> (lines 167-176) can deliver in a change event
\* when it shows cur: cur with a key appended (not beyond maxLength), cur with
\* its last character deleted, or a pasted value.
PhoneChangeValues(cur) ==
    {cur \o <<k>> : k \in {c \in PhoneKeys : Len(cur) < PhoneMaxLength}}
        \cup {SubSeq(cur, 1, Len(cur) - 1) : x \in {c \in {cur} : c # EmptyString}}
        \cup PhonePastes

(***************************************************************************)
(* The component's state and handlers.                                     *)
(***************************************************************************)
NotApplied == <<"not applied">>

Init ==
    /\ formData = EmptyForm
    /\ showPassword = FALSE
    /\ isLoading = FALSE
    /\ pc = "Idle"
    /\ timers = 0
    /\ toasts = << >>
    /\ editsInFlight = "none"
    /\ fmtInput = EmptyString
    /\ fmtOutput = NotApplied
    /\ fmtAgain = NotApplied

\* No handler code is on the stack: the event loop can deliver a DOM event.
\* (While a run of handleSubmit is suspended at the await of line 91 the
\* event loop is free.)
EventLoopFree == pc \in {"Idle", "Submitting"}

\* lines 25-30
handleInputChange(prev, field, value) == [prev EXCEPT ![field] = value]

\* handlePhoneChange storing the raw value, formatPhoneNumber forgotten
handlePhoneChange_Raw(prev, value) ==
    handleInputChange(prev, "phoneNumber", value)

\* lines 48-51
handlePhoneChange(prev, value) ==
    handleInputChange(prev, "phoneNumber", formatPhoneNumber(value))

\* What the history records when a change event has produced the form fd:
\* nothing unless a run of handleSubmit is suspended at line 91; else whether
\* the edited form would still pass the rules of lines 58, 68 and 78.
AfterEdit(fd) ==
    IF pc # "Submitting" THEN editsInFlight
    ELSE IF nameRuleFails(fd) \/ phoneRuleFails(fd) \/ passwordRuleFails(fd)
         THEN "invalid"
    ELSE "valid"

\* line 153
EditFullName ==
    /\ EventLoopFree
    /\ \E value \in NameInputs :
           formData' = handleInputChange(formData, "fullName", value)
    /\ editsInFlight' = AfterEdit(formData')
    /\ UNCHANGED <<showPassword, isLoading, pc, timers, toasts, fmtVars>>

\* line 172
EditPhone ==
    /\ EventLoopFree
    /\ \E value \in PhoneChangeValues(formData.phoneNumber) :
           formData' = handlePhoneChange(formData, value)
    /\ editsInFlight' = AfterEdit(formData')
    /\ UNCHANGED <<showPassword, isLoading, pc, timers, toasts, fmtVars>>

\* line 192
EditPassword ==
    /\ EventLoopFree
    /\ \E value \in PasswordInputs :
           formData' = handleInputChange(formData, "password", value)
    /\ editsInFlight' = AfterEdit(formData')
    /\ UNCHANGED <<showPassword, isLoading, pc, timers, toasts, fmtVars>>

\* line 199
ToggleShowPassword ==
    /\ EventLoopFree
    /\ showPassword' = ~showPassword
    /\ UNCHANGED <<formData, isLoading, pc, timers, toasts,
                   editsInFlight, fmtVars>>

\* a submit button that is never disabled
SubmitEnabled_Always == TRUE

\* The submit <Button> is disabled={isLoading}, line 217.
SubmitEnabled == ~isLoading

\* handleSubmit, lines 53-55: the submit event is delivered and the handler
\* calls setIsLoading(true) before it validates anything.
SubmitStart ==
    /\ EventLoopFree
    /\ SubmitEnabled
    /\ isLoading' = TRUE
    /\ pc' = "Validating"
    /\ toasts' = << >>
    /\ editsInFlight' = "none"
    /\ UNCHANGED <<formData, showPassword, timers, fmtVars>>

\* a validation branch that returns without setIsLoading(false)
Reject_KeepsLoading(t) ==
    /\ toasts' = Append(toasts, t)
    /\ pc' = "Idle"
    /\ UNCHANGED <<formData, showPassword, isLoading, timers,
                   editsInFlight, fmtVars>>

\* A validation branch of handleSubmit: toast(t), setIsLoading(false), return.
Reject(t) ==
    /\ toasts' = Append(toasts, t)
    /\ isLoading' = FALSE
    /\ pc' = "Idle"
    /\ UNCHANGED <<formData, showPassword, timers, editsInFlight, fmtVars>>

\* lines 58-66
RejectName ==
    /\ pc = "Validating"
    /\ nameRuleFails(formData)
    /\ Reject(ToastEmptyName)

\* lines 68-76
RejectPhone ==
    /\ pc = "Validating"
    /\ ~nameRuleFails(formData)
    /\ phoneRuleFails(formData)
    /\ Reject(ToastInvalidPhone)

\* a password branch that also clears the rejected password
RejectPassword_ClearsPassword ==
    /\ pc = "Validating"
    /\ ~nameRuleFails(formData)
    /\ ~phoneRuleFails(formData)
    /\ passwordRuleFails(formData)
    /\ toasts' = Append(toasts, ToastWeakPassword)
    /\ formData' = handleInputChange(formData, "password", EmptyString)
    /\ isLoading' = FALSE
    /\ pc' = "Idle"
    /\ UNCHANGED <<showPassword, timers, editsInFlight, fmtVars>>

\* lines 78-86
RejectPassword ==
    /\ pc = "Validating"
    /\ ~nameRuleFails(formData)
    /\ ~phoneRuleFails(formData)
    /\ passwordRuleFails(formData)
    /\ Reject(ToastWeakPassword)

\* a validation pass that suspends without scheduling the timer
StartSubmission_NoTimer ==
    /\ pc = "Validating"
    /\ ~nameRuleFails(formData)
    /\ ~phoneRuleFails(formData)
    /\ ~passwordRuleFails(formData)
    /\ pc' = "Submitting"
    /\ UNCHANGED <<formData, showPassword, isLoading, timers, toasts,
                   editsInFlight, fmtVars>>

\* lines 88-91: all rules passed; the handler schedules the 2000 ms timer and
\* suspends at the await.
StartSubmission ==
    /\ pc = "Validating"
    /\ ~nameRuleFails(formData)
    /\ ~phoneRuleFails(formData)
    /\ ~passwordRuleFails(formData)
    /\ timers' = timers + 1
    /\ pc' = "Submitting"
    /\ UNCHANGED <<formData, showPassword, isLoading, toasts,
                   editsInFlight, fmtVars>>

\* the success path without the setFormData reset of lines 99-103
TimerResolves_NoReset ==
    /\ pc = "Submitting"
    /\ timers > 0
    /\ timers' = timers - 1
    /\ toasts' = Append(toasts, ToastSuccess)
    /\ pc' = "Success"
    /\ UNCHANGED <<formData, showPassword, isLoading, editsInFlight, fmtVars>>

\* a continuation that validates the live form again when the timer fires
TimerResolves_Revalidates ==
    /\ pc = "Submitting"
    /\ timers > 0
    /\ timers' = timers - 1
    /\ IF nameRuleFails(formData) \/ phoneRuleFails(formData)
              \/ passwordRuleFails(formData)
       THEN /\ toasts' = Append(toasts, ToastSubmissionFailure)
            /\ pc' = "Failed"
            /\ UNCHANGED formData
       ELSE /\ toasts' = Append(toasts, ToastSuccess)
            /\ formData' = EmptyForm
            /\ pc' = "Success"
    /\ UNCHANGED <<showPassword, isLoading, editsInFlight, fmtVars>>

\* a reset that also hides the password again
TimerResolves_HidesPassword ==
    /\ pc = "Submitting"
    /\ timers > 0
    /\ timers' = timers - 1
    /\ toasts' = Append(toasts, ToastSuccess)
    /\ formData' = EmptyForm
    /\ showPassword' = FALSE
    /\ pc' = "Success"
    /\ UNCHANGED <<isLoading, editsInFlight, fmtVars>>

\* a reset that clears the password only: setFormData(prev => ...)
TimerResolves_ResetsPasswordOnly ==
    /\ pc = "Submitting"
    /\ timers > 0
    /\ timers' = timers - 1
    /\ toasts' = Append(toasts, ToastSuccess)
    /\ formData' = handleInputChange(formData, "password", EmptyString)
    /\ pc' = "Success"
    /\ UNCHANGED <<showPassword, isLoading, editsInFlight, fmtVars>>

\* lines 91-103: the timer fires, the promise resolves, the handler resumes:
\* toast(success) and setFormData(empty).
TimerResolves ==
    /\ pc = "Submitting"
    /\ timers > 0
    /\ timers' = timers - 1
    /\ toasts' = Append(toasts, ToastSuccess)
    /\ formData' = EmptyForm
    /\ pc' = "Success"
    /\ UNCHANGED <<showPassword, isLoading, editsInFlight, fmtVars>>

\* a catch block that also resets the form
SubmissionThrows_Resets ==
    /\ pc = "Submitting"
    /\ timers > 0
    /\ timers' = timers - 1
    /\ toasts' = Append(toasts, ToastSubmissionFailure)
    /\ formData' = EmptyForm
    /\ pc' = "Failed"
    /\ UNCHANGED <<showPassword, isLoading, editsInFlight, fmtVars>>

\* lines 104-109: something inside the try block throws; the catch block
\* emits the generic error and leaves formData alone.
SubmissionThrows ==
    /\ pc = "Submitting"
    /\ timers > 0
    /\ timers' = timers - 1
    /\ toasts' = Append(toasts, ToastSubmissionFailure)
    /\ pc' = "Failed"
    /\ UNCHANGED <<formData, showPassword, isLoading, editsInFlight, fmtVars>>

\* a handler whose setIsLoading(false) is missing from the finally block
Finally_KeepsLoading ==
    /\ pc \in {"Success", "Failed"}
    /\ pc' = "Idle"
    /\ UNCHANGED <<formData, showPassword, isLoading, timers, toasts,
                   editsInFlight, fmtVars>>

\* lines 110-112: finally { setIsLoading(false) }, and the handler returns.
Finally ==
    /\ pc \in {"Success", "Failed"}
    /\ isLoading' = FALSE
    /\ pc' = "Idle"
    /\ UNCHANGED <<formData, showPassword, timers, toasts,
                   editsInFlight, fmtVars>>

Next ==
    \/ EditFullName
    \/ EditPhone
    \/ EditPassword
    \/ ToggleShowPassword
    \/ SubmitStart
    \/ RejectName
    \/ RejectPhone
    \/ RejectPassword
    \/ StartSubmission
    \/ TimerResolves
    \/ Finally

\* The component as written: the awaited promise of line 91 only resolves.
Spec == Init /\ [][Next]_vars

\* The component with a submission step that may throw (the real call that
\* line 89 announces), which is what the catch block of lines 104-109 is for.
NextFail == Next \/ SubmissionThrows

SpecFail == Init /\ [][NextFail]_vars

\* The synchronous part of a handler runs to completion (JavaScript runs a
\* task to its end or to its next await), and the timer of line 91 fires: the
\* steps of a started run are taken, whatever the user does meanwhile.
HandlerStep ==
    \/ RejectName
    \/ RejectPhone
    \/ RejectPassword
    \/ StartSubmission
    \/ Finally

TimerStep == TimerResolves \/ SubmissionThrows

SpecLive ==
    Init /\ [][NextFail]_vars /\ WF_vars(HandlerStep) /\ WF_vars(TimerStep)

(***************************************************************************)
(* The formatter on its own: formatPhoneNumber applied to a drawn input,   *)
(* and then to its own output, as the controlled <Input> does when the     *)
(* next change event carries the displayed value (lines 171-172).          *)
(***************************************************************************)
\* n digits: start, start+step, start+2*step, ... (mod 10)
DigitRun(n, start, step) ==
    [i \in 1..n |-> DigitChar[((start + step * (i - 1)) % 10) + 1]]

\* the digits of d, each preceded by the non-digit c
Decorate(d, c) ==
    [i \in 1..(2 * Len(d)) |-> IF i % 2 = 1 THEN c ELSE d[i \div 2]]

DigitRuns ==
    {DigitRun(n, start, step) : n \in 0..MaxDigits, start \in 0..9, step \in {1, 3}}

FormatInputs ==
    DigitRuns
        \cup {Decorate(d, " ") : d \in DigitRuns}
        \cup {Decorate(d, "-") \o <<")">> : d \in DigitRuns}

InitFormat ==
    /\ fmtInput \in FormatInputs
    /\ fmtOutput = NotApplied
    /\ fmtAgain = NotApplied
    /\ formData = EmptyForm
    /\ showPassword = FALSE
    /\ isLoading = FALSE
    /\ pc = "Idle"
    /\ timers = 0
    /\ toasts = << >>
    /\ editsInFlight = "none"

ApplyFormat ==
    /\ fmtOutput = NotApplied
    /\ fmtOutput' = formatPhoneNumber(fmtInput)
    /\ UNCHANGED <<fmtInput, fmtAgain, formData, showPassword, isLoading, pc,
                   timers, toasts, editsInFlight>>

ApplyFormatAgain ==
    /\ fmtOutput # NotApplied
    /\ fmtAgain = NotApplied
    /\ fmtAgain' = formatPhoneNumber(fmtOutput)
    /\ UNCHANGED <<fmtInput, fmtOutput, formData, showPassword, isLoading, pc,
                   timers, toasts, editsInFlight>>

NextFormat == ApplyFormat \/ ApplyFormatAgain

SpecFormat == InitFormat /\ [][NextFormat]_vars

(***************************************************************************)
(* Properties.  The helpers below restate the claims' terms without using  *)
(* the model's own operators.                                              *)
(***************************************************************************)
\* the digit sequence of s: s with every non-digit character removed
RECURSIVE DigitSequence(_)
DigitSequence(s) ==
    IF s = << >> THEN << >>
    ELSE IF Head(s) \in {"0", "1", "2", "3", "4", "5", "6", "7", "8", "9"}
         THEN <<Head(s)>> \o DigitSequence(Tail(s))
         ELSE DigitSequence(Tail(s))

\* the digits of d from the (from+1)-th on
DigitsAfter(d, from) == [i \in 1..(Len(d) - from) |-> d[from + i]]

\* the pattern table, row by row and character by character, for 0 to 13 digits
PatternTable(d) ==
    IF Len(d) <= 2 THEN <<"+", "5", "5", " ">> \o d
    ELSE IF Len(d) <= 4
         THEN <<"+", "5", "5", " ", "(">> \o DigitsAfter(d, 2) \o <<")">>
    ELSE IF Len(d) <= 9
         THEN <<"+", "5", "5", " ", "(", d[3], d[4], ")", " ">> \o DigitsAfter(d, 4)
    ELSE <<"+", "5", "5", " ", "(", d[3], d[4], ")", " ",
           d[5], d[6], d[7], d[8], d[9], "-">> \o DigitsAfter(d, 9)

\* s is empty after trimming
AllBlank(s) == \A i \in 1..Len(s) : s[i] = " "

\* C1: for every input whose digit sequence d has 0 to 13 digits,
\* formatPhoneNumber returns the row of the pattern table for d: "+55 " d;
\* "+55 (" d[2:] ")"; "+55 (" d[2:4] ") " d[4:]; "+55 (" d[2:4] ") " d[4:9] "-" d[9:13].
C1_PatternTable ==
    (fmtOutput # NotApplied /\ Len(DigitSequence(fmtInput)) <= 13)
        => fmtOutput = PatternTable(DigitSequence(fmtInput))

\* C1's case: a 13-digit input with non-digits between the digits, formatted
C1_Witness ==
    /\ fmtOutput # NotApplied
    /\ Len(DigitSequence(fmtInput)) = 13
    /\ Len(fmtInput) > 13
    /\ Len(fmtOutput) = 19

\* C2: formatPhoneNumber is idempotent: applied to its own output it returns
\* that output again, for every input, those with 0, 1 or 2 digits included.
C2_Idempotent == fmtAgain # NotApplied => fmtAgain = fmtOutput

\* the three rules as the claims state them
NameRuleBroken == AllBlank(formData.fullName)

PhoneRuleBroken ==
    AllBlank(formData.phoneNumber) \/ Len(formData.phoneNumber) < 19

PasswordRuleBroken ==
    AllBlank(formData.password) \/ Len(formData.password) < 6

\* C3: a submit attempt reports exactly the first failing rule in the order
\* name, phone, password (EmptyName whenever the trimmed name is empty,
\* whatever the other fields; InvalidPhone when the name passes and the phone
\* is blank or shorter than 19; WeakPassword when name and phone pass and the
\* password is blank or shorter than 6), and goes on to the submission step
\* only when all three rules pass.
C3_FirstFailingRule ==
    [][pc = "Validating" =>
        /\ NameRuleBroken => (toasts' = <<ToastEmptyName>> /\ pc' = "Idle")
        /\ (~NameRuleBroken /\ PhoneRuleBroken)
               => (toasts' = <<ToastInvalidPhone>> /\ pc' = "Idle")
        /\ (~NameRuleBroken /\ ~PhoneRuleBroken /\ PasswordRuleBroken)
               => (toasts' = <<ToastWeakPassword>> /\ pc' = "Idle")
        /\ (pc' = "Submitting" /\ timers' = timers + 1 /\ toasts' = << >>)
               <=> (~NameRuleBroken /\ ~PhoneRuleBroken /\ ~PasswordRuleBroken)
      ]_vars

\* C3's case: EmptyName reported for a blank name while phone and password
\* are valid
C3_Witness ==
    /\ pc = "Idle"
    /\ toasts = <<ToastEmptyName>>
    /\ NameRuleBroken
    /\ ~PhoneRuleBroken
    /\ ~PasswordRuleBroken

\* C4 as stated: every submit attempt with a phoneNumber shorter than 19
\* characters yields InvalidPhone, whatever fullName and password are.
C4_ShortPhoneAlwaysInvalidPhone ==
    [][(pc = "Validating" /\ Len(formData.phoneNumber) < 19)
           => toasts' = <<ToastInvalidPhone>>]_vars

\* C4 amended: every submit attempt with a non-blank fullName and a
\* phoneNumber shorter than 19 characters yields InvalidPhone, whatever the
\* password is.
C4_ShortPhoneAfterName ==
    [][(pc = "Validating" /\ ~NameRuleBroken /\ Len(formData.phoneNumber) < 19)
           => (toasts' = <<ToastInvalidPhone>> /\ pc' = "Idle")]_vars

\* C4's case: InvalidPhone reported for a non-empty phone of fewer than 19
\* characters, name and password valid
C4_Witness ==
    /\ pc = "Idle"
    /\ toasts = <<ToastInvalidPhone>>
    /\ ~NameRuleBroken
    /\ Len(formData.phoneNumber) \in 1..18
    /\ ~PasswordRuleBroken

\* C5 as stated: every submit attempt with a password shorter than 6
\* characters yields WeakPassword, whatever fullName and phoneNumber are.
C5_ShortPasswordAlwaysWeakPassword ==
    [][(pc = "Validating" /\ Len(formData.password) < 6)
           => toasts' = <<ToastWeakPassword>>]_vars

\* C5 amended: every submit attempt whose fullName and phoneNumber pass their
\* rules and whose password is shorter than 6 characters yields WeakPassword.
C5_ShortPasswordAfterNameAndPhone ==
    [][(/\ pc = "Validating"
        /\ ~NameRuleBroken
        /\ ~PhoneRuleBroken
        /\ Len(formData.password) < 6)
           => (toasts' = <<ToastWeakPassword>> /\ pc' = "Idle")]_vars

\* C5's case: WeakPassword reported for a non-blank password of fewer than 6
\* characters
C5_Witness ==
    /\ pc = "Idle"
    /\ toasts = <<ToastWeakPassword>>
    /\ ~NameRuleBroken
    /\ ~PhoneRuleBroken
    /\ ~AllBlank(formData.password)
    /\ Len(formData.password) < 6

C7_LoadingFalseOnEveryExit ==
    [][(pc # "Idle" /\ pc' = "Idle")
           => (/\ isLoading' = FALSE
               /\ Len(toasts') = 1
               /\ toasts'[1] \in {ToastEmptyName, ToastInvalidPhone,
                                  ToastWeakPassword, ToastSuccess,
                                  ToastSubmissionFailure})]_vars

\* C7's case: a run that ended through the catch block, isLoading false
C7_Witness ==
    /\ pc = "Idle"
    /\ toasts = <<ToastSubmissionFailure>>
    /\ ~isLoading

\* C8: a submit attempt on a form that passes all three rules enters
\* Submitting and, when the delay elapses, resolves to Success and never to
\* Failed: the success notification is emitted, fullName, phoneNumber and
\* password are reset to the empty string, and isLoading is false afterwards.
C8_ValidFormSucceeds ==
    [][/\ (/\ pc = "Validating"
           /\ ~NameRuleBroken /\ ~PhoneRuleBroken /\ ~PasswordRuleBroken)
              => (pc' = "Submitting" /\ isLoading' /\ timers' = 1)
       /\ (pc = "Submitting" /\ pc' # "Submitting")
              => (/\ pc' = "Success"
                  /\ toasts' = <<ToastSuccess>>
                  /\ formData'.fullName = << >>
                  /\ formData'.phoneNumber = << >>
                  /\ formData'.password = << >>)
       /\ pc = "Success"
              => (/\ pc' = "Idle"
                  /\ isLoading' = FALSE
                  /\ toasts' = <<ToastSuccess>>
                  /\ formData'.fullName = << >>
                  /\ formData'.phoneNumber = << >>
                  /\ formData'.password = << >>)
       /\ pc' # "Failed"
      ]_vars

\* C8's case: a run has completed with Success; the form is empty and idle
C8_Witness ==
    /\ pc = "Idle"
    /\ toasts = <<ToastSuccess>>
    /\ formData.fullName = << >>
    /\ formData.phoneNumber = << >>
    /\ formData.password = << >>
    /\ ~isLoading

\* p is a value formatPhoneNumber returns: a digit string it maps to p exists.
\* (An output's digits are "55" followed by the input's digits when the input
\* has at most 2, and "55" followed by the input's 3rd to 13th otherwise.)
ReturnedByFormatter(p) ==
    LET n == DigitSequence(p)
    IN  \E x \in {n, DigitsAfter(n, Min(2, Len(n)))} : formatPhoneNumber(x) = p

\* C9: in every reachable state phoneNumber is the empty string or a value
\* returned by formatPhoneNumber; raw text is never stored in it.
C9_PhoneIsFormattedOrEmpty ==
    formData.phoneNumber = << >> \/ ReturnedByFormatter(formData.phoneNumber)

\* C9's case: the phone field has been edited while a submission is in
\* flight, and holds a formatted value of fewer than 19 characters
C9_Witness ==
    /\ formData.phoneNumber # << >>
    /\ Len(formData.phoneNumber) \in 8..18
    /\ pc = "Submitting"
    /\ ReturnedByFormatter(formData.phoneNumber)

\* C10: at most one simulated submission is in flight: while one is, the
\* submit control is disabled and no submit event can start a second run.
C10_SingleSubmissionInFlight ==
    /\ timers <= 1
    /\ timers = 1 <=> pc = "Submitting"
    /\ pc = "Submitting" => ~ENABLED SubmitStart

\* C10's case: a submission is in flight and the form, edited meanwhile or
\* not, would pass validation if a second submit were accepted
C10_Witness ==
    /\ pc = "Submitting"
    /\ timers = 1
    /\ isLoading
    /\ ~NameRuleBroken /\ ~PhoneRuleBroken /\ ~PasswordRuleBroken

\* C11: field edits that arrive while a submission is in flight are applied
\* to the form state and do not change the outcome of that submission: it
\* completes with the success notification whatever was edited, edits that
\* make the fields invalid included.
C11_EditsInFlightDoNotChangeOutcome ==
    [][pc = "Submitting" =>
        /\ ENABLED (EditFullName /\ formData'.fullName # formData.fullName)
        /\ ENABLED (EditPhone /\ formData'.phoneNumber # formData.phoneNumber)
        /\ ENABLED (EditPassword /\ formData'.password # formData.password)
        /\ pc' = "Submitting"
               => (timers' = timers /\ toasts' = toasts /\ isLoading' = isLoading)
        /\ pc' # "Submitting"
               => (pc' = "Success" /\ toasts' = <<ToastSuccess>> /\ timers' = 0)
      ]_vars

\* C11's case: the submission has completed with Success after edits in
\* flight that left the form invalid
C11_Witness ==
    /\ pc = "Success"
    /\ editsInFlight = "invalid"
    /\ toasts = <<ToastSuccess>>

\* C12: if the submission step throws, the controller goes through Failed:
\* exactly one generic-error notification is emitted, no success notification,
\* and fullName, phoneNumber and password keep the values they had when the
\* failure surfaced.
C12_FailedKeepsFields ==
    [][/\ pc' = "Failed"
              => (/\ pc = "Submitting"
                  /\ toasts' = <<ToastSubmissionFailure>>
                  /\ formData' = formData)
       /\ pc = "Failed"
              => (/\ pc' = "Idle"
                  /\ toasts' = <<ToastSubmissionFailure>>
                  /\ formData' = formData)
      ]_vars

\* C12's case: the submission step has thrown on the valid sample form, which
\* is still in the fields
C12_Witness ==
    /\ pc = "Failed"
    /\ toasts = <<ToastSubmissionFailure>>
    /\ formData.fullName = NameSample
    /\ Len(formData.phoneNumber) = 19
    /\ formData.password = PasswordSample

\* C13: every submit attempt eventually returns the form to an interactive
\* state: once a submit has started, the controller eventually is in Idle with
\* isLoading false and the submit control enabled, whether the attempt ends in
\* a validation error, in Success or in Failed (the timer eventually fires).
C13_SubmitReturnsToIdle ==
    (pc # "Idle") ~> (pc = "Idle" /\ ~isLoading /\ ENABLED SubmitStart)

\* C13's case: a run that was suspended in Submitting has ended, and the form
\* is interactive again
C13_Witness ==
    /\ pc = "Idle"
    /\ toasts \in {<<ToastSuccess>>, <<ToastSubmissionFailure>>}
    /\ ~isLoading
    /\ ENABLED SubmitStart
    /\ ENABLED EditPhone

\* the first n characters of s (all of s when it is shorter)
FirstN(s, n) == [i \in 1..(IF Len(s) < n THEN Len(s) ELSE n) |-> s[i]]

\* C14: formatPhoneNumber ignores every digit after the 13th: its output is
\* its output on the first 13 digits of the input, and is never longer than
\* 19 characters.
C14_DigitsBeyond13Ignored ==
    fmtOutput # NotApplied
        => /\ fmtOutput = formatPhoneNumber(FirstN(DigitSequence(fmtInput), 13))
           /\ fmtOutput = PatternTable(FirstN(DigitSequence(fmtInput), 13))
           /\ Len(fmtOutput) <= 19

\* C14's case: an input of more than 13 digits has been formatted
C14_Witness ==
    /\ fmtOutput # NotApplied
    /\ Len(DigitSequence(fmtInput)) > 14
    /\ Len(fmtInput) > Len(DigitSequence(fmtInput))
    /\ Len(fmtOutput) = 19

\* C15: a submit attempt rejected by a validation rule performs no partial
\* submission: it emits exactly one error notification, starts no simulated
\* submission (no timer is scheduled, no success notification follows) and
\* leaves fullName, phoneNumber, password and the visibility flag unchanged.
C15_RejectionHasNoOtherEffect ==
    [][/\ (pc = "Validating" /\ pc' = "Idle")
              => (/\ Len(toasts') = 1
                  /\ toasts'[1].variant = "destructive"
                  /\ toasts'[1] # ToastSuccess
                  /\ timers = 0
                  /\ timers' = 0
                  /\ formData' = formData
                  /\ showPassword' = showPassword)
       /\ (pc = "Idle" /\ toasts' # toasts) => toasts' = << >>
      ]_vars

\* C15's case: the password rule has rejected the attempt; the short password
\* is still in the field, the password is still shown, no timer is pending
C15_Witness ==
    /\ pc = "Idle"
    /\ toasts = <<ToastWeakPassword>>
    /\ formData.password = <<"a">>
    /\ showPassword = TRUE
    /\ timers = 0

\* C16: toggling password visibility changes only the visibility flag
\* (fullName, phoneNumber, password and isLoading are unchanged by it), and no
\* field edit and no submit outcome (validation error, Success with its reset,
\* Failed) changes the visibility flag.
C16_VisibilityIsIndependent ==
    [][/\ showPassword' # showPassword
              => (/\ formData' = formData
                  /\ isLoading' = isLoading
                  /\ pc' = pc
                  /\ timers' = timers
                  /\ toasts' = toasts)
       /\ (formData' # formData \/ pc' # pc \/ toasts' # toasts
              \/ isLoading' # isLoading)
              => showPassword' = showPassword
      ]_vars

\* C16's case: the password was made visible, and a submission has since
\* succeeded and reset the form: the flag is still set
C16_Witness ==
    /\ showPassword = TRUE
    /\ pc = "Success"
    /\ formData = EmptyForm
    /\ toasts = <<ToastSuccess>>

\* C17: when a submission completes successfully, fullName, phoneNumber and
\* password are all empty immediately afterwards even if fields were edited
\* while it was in flight: the reset discards every such edit.
C17_ResetDiscardsEditsInFlight ==
    [][/\ (pc = "Submitting" /\ pc' = "Success" /\ editsInFlight # "none")
              => (/\ formData'.fullName = << >>
                  /\ formData'.phoneNumber = << >>
                  /\ formData'.password = << >>)
       /\ (pc = "Success" /\ editsInFlight # "none")
              => (/\ pc' = "Idle"
                  /\ formData'.fullName = << >>
                  /\ formData'.phoneNumber = << >>
                  /\ formData'.password = << >>)
      ]_vars

\* C17's case: a submission during which fields were edited has succeeded
\* and returned to Idle with the empty form
C17_Witness ==
    /\ pc = "Idle"
    /\ toasts = <<ToastSuccess>>
    /\ editsInFlight = "valid"
    /\ formData = EmptyForm
    /\ ~isLoading

\* C18: for a phoneNumber stored by handlePhoneChange, the phone rule passes
\* if and only if the raw input held at least 13 digits: the stored value has
\* exactly 19 characters then, and fewer than 19 for 12 digits or fewer.
C18_PhoneRulePassesFrom13Digits ==
    fmtOutput # NotApplied
        => LET stored == handlePhoneChange(EmptyForm, fmtInput)
               n == Len(DigitSequence(fmtInput))
           IN  /\ stored.phoneNumber = fmtOutput
               /\ n >= 13 <=> ~phoneRuleFails(stored)
               /\ n >= 13 => Len(stored.phoneNumber) = 19
               /\ n <= 12 => Len(stored.phoneNumber) < 19

\* C18's case: a 12-digit input has been formatted, one character short
C18_Witness ==
    /\ fmtOutput # NotApplied
    /\ Len(DigitSequence(fmtInput)) = 12
    /\ Len(fmtOutput) = 18

====
